---- MODULE Spec2Model ----
(***************************************************************************)
(* vmariachi: a register virtual machine (src/src/vm.rs) and the assembler *)
(* that produces its bytecode (src/src/assembler/parser.rs,                *)
(* src/src/assembler/assembler.rs, src/src/instruction.rs).                *)
(*                                                                         *)
(* Numbers.  Registers are Rust i32, the remainder is u32, the program     *)
(* counter is usize (64 bit).  TLC's integers are 32-bit, so i32           *)
(* arithmetic is done by operators that detect the overflow and compute    *)
(* the wrapped result without leaving the range, a u32 is held as two      *)
(* 16-bit limbs, and a usize is held by its two's-complement reading: a    *)
(* value v < 0 stands for the usize 2^64 + v (what `x as usize` gives for  *)
(* a negative i32 x, and what a wrapping subtraction below 0 gives).       *)
(*                                                                         *)
(* Builds.  Rust's +, -, * panic on overflow when overflow checks are on   *)
(* (the debug profile) and wrap when they are off (the release profile);   *)
(* the variable overflow_checks is the profile of the build that runs.     *)
(* A panic ends the process: crashed becomes TRUE and nothing runs after.  *)
(***************************************************************************)
EXTENDS Integers, Sequences, FiniteSets, TLC

VARIABLES
    registers,        \* VM.registers: [i32; 32]
    program,          \* VM.program: Vec<u8>
    program_counter,  \* VM.program_counter: usize
    heap,             \* VM.heap: Vec<u8>
    remainder,        \* VM.remainder: u32, as limbs [hi, lo]
    equal_flag,       \* VM.equal_flag: bool
    overflow_checks,  \* the build profile: TRUE = overflow checks on
    crashed,          \* the process has panicked
    ctl,              \* position inside VM::run: "idle", "cond", "body"; "repl"
                      \* inside a session command, before its run_once
    steps,            \* number of execute_instruction calls so far
    last,             \* the last call made and what it did
    symbols,          \* Assembler.symbols.symbols: Vec<Symbol>
    phase,            \* Assembler.phase
    asm_src,          \* the source text of the last Assembler::assemble call (or
                      \* the last command the interactive session parsed)
    asm_out,          \* what the last Assembler::assemble call returned (or the
                      \* bytes the session got for its last command)
    asm_calls,        \* number of Assembler::assemble calls so far
    commands          \* REPL.command_buffer.len(): commands read so far

vmvars == <<registers, program, program_counter, heap, remainder, equal_flag>>
asmvars == <<symbols, phase, asm_src, asm_out, asm_calls>>
vars == <<registers, program, program_counter, heap, remainder, equal_flag,
          overflow_checks, crashed, ctl, steps, last,
          symbols, phase, asm_src, asm_out, asm_calls, commands>>

-----------------------------------------------------------------------------
(* Bounds of the model *)

\* execute_instruction calls followed in one behaviour
MaxSteps == 6
\* instruction records in the program buffer under Spec
MaxRecords == 2
\* instruction records after the first chunk under SpecRun
MaxRunRecords == 2
\* heap bytes followed (a larger ALOC is outside the model)
MaxHeap == 8
\* Assembler::assemble calls followed on one Assembler
MaxAssemble == 2
\* lines of a source text made of several lines
MaxLines == 2
\* instruction records of a program run on arranged registers
MaxUnitRecords == 1
\* commands read by one interactive session
MaxCommands == 3

-----------------------------------------------------------------------------
(* Program constants *)

NumRegisters == 32
HeaderLength == 64
RecordWidth == 4
I32Max == 2147483647
I32Min == -I32Max - 1
U16 == 65536
U8 == 256

\* crate::assembler::assembler::PIE_HEADER_PREFIX: imported by vm.rs, its
\* definition is not among the source files; a fixed 4-byte magic sequence.
PIE_HEADER_PREFIX == <<45, 50, 49, 45>>

-----------------------------------------------------------------------------
(* i32 arithmetic *)

AddOverflows(a, b) ==
    \/ b > 0 /\ a > I32Max - b
    \/ b < 0 /\ a < I32Min - b

\* a + b modulo 2^32, read as i32
WrapAdd(a, b) ==
    IF b > 0 /\ a > I32Max - b THEN (a - I32Max - 1) + (b - I32Max - 1)
    ELSE IF b < 0 /\ a < I32Min - b THEN (a + I32Max + 1) + (b + I32Max + 1)
    ELSE a + b

SubOverflows(a, b) ==
    \/ b < 0 /\ a > I32Max + b
    \/ b > 0 /\ a < I32Min + b

\* a - b modulo 2^32, read as i32
WrapSub(a, b) ==
    IF b < 0 /\ a > I32Max + b THEN (a - I32Max - 1) - (b + I32Max + 1)
    ELSE IF b > 0 /\ a < I32Min + b THEN (a + I32Max + 1) - (b - I32Max - 1)
    ELSE a - b

\* the bit pattern of an i32 as two 16-bit limbs (x as u32)
ToU32(x) ==
    IF x >= 0 THEN [hi |-> x \div U16, lo |-> x % U16]
    ELSE [hi |-> ((x + I32Max + 1) \div U16) + 32768, lo |-> (x + I32Max + 1) % U16]

\* the i32 with the bit pattern of two 16-bit limbs (u as i32)
FromU32(u) ==
    IF u.hi >= 32768 THEN ((u.hi - 32768) * U16 + u.lo) - I32Max - 1
    ELSE u.hi * U16 + u.lo

\* the product of two 16-bit values as limbs
Mul16(a, b) ==
    LET t1 == a * (b % U8)
        t2 == a * (b \div U8)
        low == t1 + (t2 % U8) * U8
    IN  [hi |-> (low \div U16) + (t2 \div U8), lo |-> low % U16]

\* a * b modulo 2^32, read as i32
WrapMul(a, b) ==
    LET ua == ToU32(a)
        ub == ToU32(b)
        ll == Mul16(ua.lo, ub.lo)
        lh == Mul16(ua.lo, ub.hi)
        hl == Mul16(ua.hi, ub.lo)
    IN  FromU32([hi |-> (ll.hi + lh.lo + hl.lo) % U16, lo |-> ll.lo])

Abs(x) == IF x < 0 THEN -x ELSE x

\* a * b does not fit an i32, decided on the magnitudes: |a| * |b| <= 2^31 - 1
\* for a positive product, |a| * |b| <= 2^31 for a negative one
MulOverflows(a, b) ==
    IF a = 0 \/ b = 0 THEN FALSE
    ELSE IF a = I32Min THEN b # 1
    ELSE IF b = I32Min THEN a # 1
    ELSE LET fits == Abs(a) <= I32Max \div Abs(b)
             exact == /\ Abs(a) = (I32Max \div Abs(b)) + 1
                      /\ I32Max % Abs(b) = Abs(b) - 1
         IN  IF (a < 0) = (b < 0) THEN ~fits ELSE ~(fits \/ exact)

\* Rust's a / b for b # 0 and not (a = i32::MIN and b = -1): truncates to 0
PosDiv(a, b) == IF a >= 0 THEN a \div b ELSE -((-(a + 1)) \div b) - (IF (-(a + 1)) % b = b - 1 THEN 1 ELSE 0)

TruncDiv(a, b) ==
    IF b > 0 THEN PosDiv(a, b)
    ELSE IF b = I32Min THEN (IF a = I32Min THEN 1 ELSE 0)
    ELSE -PosDiv(a, -b)

\* Rust's a % b: the remainder has the sign of the dividend
TruncRem(a, b) == a - b * TruncDiv(a, b)

-----------------------------------------------------------------------------
(* The instruction table *)

\* a decoder with the entries of GTE and GT, and of LTE and LT, exchanged:
\* the variant the comparison property has to tell from the VM's decoder
OpcodeFromU8Exchanged(value) ==
    CASE value = 0 -> "LOAD"
      [] value = 1 -> "ADD"
      [] value = 2 -> "SUB"
      [] value = 3 -> "MUL"
      [] value = 4 -> "DIV"
      [] value = 5 -> "HLT"
      [] value = 6 -> "JMP"
      [] value = 7 -> "JMPF"
      [] value = 8 -> "JMPB"
      [] value = 9 -> "EQ"
      [] value = 10 -> "NEQ"
      [] value = 11 -> "GTE"
      [] value = 12 -> "LTE"
      [] value = 13 -> "GT"
      [] value = 14 -> "LT"
      [] value = 15 -> "JEQ"
      [] value = 16 -> "JNEQ"
      [] value = 17 -> "ALOC"
      [] value = 18 -> "INC"
      [] value = 19 -> "DEC"
      [] OTHER -> "IGL"

\* impl From<u8> for Opcode (vm.rs): the VM's byte -> opcode decoder
OpcodeFromU8(value) ==
    CASE value = 0 -> "LOAD"
      [] value = 1 -> "ADD"
      [] value = 2 -> "SUB"
      [] value = 3 -> "MUL"
      [] value = 4 -> "DIV"
      [] value = 5 -> "HLT"
      [] value = 6 -> "JMP"
      [] value = 7 -> "JMPF"
      [] value = 8 -> "JMPB"
      [] value = 9 -> "EQ"
      [] value = 10 -> "NEQ"
      [] value = 11 -> "GT"
      [] value = 12 -> "LT"
      [] value = 13 -> "GTE"
      [] value = 14 -> "LTE"
      [] value = 15 -> "JEQ"
      [] value = 16 -> "JNEQ"
      [] value = 17 -> "ALOC"
      [] value = 18 -> "INC"
      [] value = 19 -> "DEC"
      [] OTHER -> "IGL"

-----------------------------------------------------------------------------
(* The virtual machine: one execute_instruction call *)

\* x as usize for an i32 x: sign-extended, so a negative x becomes 2^64 + x,
\* which the model writes as the negative number x (see the head of the file)
AsUsize(x) == x

\* a usize that can index a Vec of length n
InBounds(i, n) == i >= 0 /\ i < n

\* the VM's fields as one record, with the outcome of the call:
\* "some" = Some(()), "none" = None, "panic" = the call panicked
Unchanged(out, op) ==
    [out |-> out, op |-> op,
     registers |-> registers, program_counter |-> program_counter,
     heap |-> heap, remainder |-> remainder, equal_flag |-> equal_flag]

Zeros(n) == [i \in 1..n |-> 0]

\* the opcode arms of execute_instruction; pc is the index of the opcode byte,
\* which decode_opcode has read and stepped over
ExecuteOpcode(op) ==
    LET pc == program_counter
        len == Len(program)
        \* the k-th byte after the opcode: program[pc + k]
        Has(k) == InBounds(pc + k, len)
        Byte(k) == program[pc + k + 1]
        IsReg(i) == i < NumRegisters
        Reg(i) == registers[i]
        Panic == Unchanged("panic", op)
        Same == Unchanged("some", op)
        \* first_register, second_register of the three-register arms
        TwoRegs == Has(1) /\ Has(2) /\ IsReg(Byte(1)) /\ IsReg(Byte(2))
        Arith(overflows, value) ==
            IF ~TwoRegs THEN Panic
            ELSE IF overflows /\ overflow_checks THEN Panic
            ELSE IF ~Has(3) THEN Panic
            ELSE IF ~IsReg(Byte(3)) THEN Panic
            ELSE [Same EXCEPT !.registers[Byte(3)] = value,
                              !.program_counter = pc + 4]
        Compare(flag) ==
            IF ~TwoRegs THEN Panic
            ELSE IF ~Has(3) THEN Panic
            ELSE [Same EXCEPT !.equal_flag = flag, !.program_counter = pc + 4]
        OneReg == Has(1) /\ IsReg(Byte(1))
        JumpIf(cond) ==
            IF ~OneReg THEN Panic
            ELSE IF cond THEN [Same EXCEPT !.program_counter = AsUsize(Reg(Byte(1)))]
            ELSE [Same EXCEPT !.program_counter = pc + 2]
    IN
    CASE op = "LOAD" ->
            IF ~Has(1) THEN Panic
            ELSE IF ~(Has(2) /\ Has(3)) THEN Panic
            ELSE IF ~IsReg(Byte(1)) THEN Panic
            ELSE [Same EXCEPT !.registers[Byte(1)] = Byte(2) * U8 + Byte(3),
                              !.program_counter = pc + 4]
      [] op = "ADD" ->
            Arith(TwoRegs /\ AddOverflows(Reg(Byte(1)), Reg(Byte(2))),
                  WrapAdd(Reg(Byte(1)), Reg(Byte(2))))
      [] op = "SUB" ->
            Arith(TwoRegs /\ SubOverflows(Reg(Byte(1)), Reg(Byte(2))),
                  WrapSub(Reg(Byte(1)), Reg(Byte(2))))
      [] op = "MUL" ->
            Arith(TwoRegs /\ MulOverflows(Reg(Byte(1)), Reg(Byte(2))),
                  WrapMul(Reg(Byte(1)), Reg(Byte(2))))
      [] op = "DIV" ->
            IF ~TwoRegs THEN Panic
            \* division by zero, and i32::MIN / -1, panic in every build
            ELSE IF Reg(Byte(2)) = 0 THEN Panic
            ELSE IF Reg(Byte(1)) = I32Min /\ Reg(Byte(2)) = -1 THEN Panic
            ELSE IF ~Has(3) THEN Panic
            ELSE IF ~IsReg(Byte(3)) THEN Panic
            ELSE [Same EXCEPT
                    !.registers[Byte(3)] = TruncDiv(Reg(Byte(1)), Reg(Byte(2))),
                    !.remainder = ToU32(TruncRem(Reg(Byte(1)), Reg(Byte(2)))),
                    !.program_counter = pc + 4]
      [] op = "HLT" -> [Unchanged("none", op) EXCEPT !.program_counter = pc + 1]
      [] op = "JMP" -> JumpIf(TRUE)
      [] op = "JMPF" ->
            IF ~OneReg THEN Panic
            \* program_counter += jumps as usize: the sum passes 2^64 when
            \* jumps is negative and no larger than the counter
            ELSE IF Reg(Byte(1)) < 0 /\ pc + 2 + Reg(Byte(1)) >= 0 /\ overflow_checks
                 THEN Panic
            ELSE [Same EXCEPT !.program_counter = (pc + 2) + AsUsize(Reg(Byte(1)))]
      [] op = "JMPB" ->
            IF ~OneReg THEN Panic
            \* program_counter -= jumps as usize: below 0 when jumps as usize
            \* is larger than the counter (every negative jumps is)
            ELSE IF (Reg(Byte(1)) < 0 \/ Reg(Byte(1)) > pc + 2) /\ overflow_checks
                 THEN Panic
            ELSE [Same EXCEPT !.program_counter = (pc + 2) - AsUsize(Reg(Byte(1)))]
      [] op = "EQ" -> Compare(TwoRegs /\ Reg(Byte(1)) = Reg(Byte(2)))
      [] op = "NEQ" -> Compare(TwoRegs /\ Reg(Byte(1)) # Reg(Byte(2)))
      [] op = "GT" -> Compare(TwoRegs /\ Reg(Byte(1)) > Reg(Byte(2)))
      [] op = "LT" -> Compare(TwoRegs /\ Reg(Byte(1)) < Reg(Byte(2)))
      [] op = "GTE" -> Compare(TwoRegs /\ Reg(Byte(1)) >= Reg(Byte(2)))
      [] op = "LTE" -> Compare(TwoRegs /\ Reg(Byte(1)) <= Reg(Byte(2)))
      [] op = "JEQ" -> JumpIf(equal_flag)
      [] op = "JNEQ" -> JumpIf(~equal_flag)
      [] op = "ALOC" ->
            IF ~OneReg THEN Panic
            \* heap.len() + bytes as usize: passes 2^64 when bytes is negative
            \* and no larger than the length; the wrapped sum is then shorter
            \* than the heap and resize truncates.  A negative bytes larger
            \* than the length asks for more than isize::MAX bytes: resize
            \* panics (capacity overflow).
            ELSE IF Reg(Byte(1)) < 0 /\ Len(heap) + Reg(Byte(1)) < 0 THEN Panic
            ELSE IF Reg(Byte(1)) < 0 /\ overflow_checks THEN Panic
            ELSE IF Reg(Byte(1)) < 0
                 THEN [Same EXCEPT !.heap = SubSeq(heap, 1, Len(heap) + Reg(Byte(1))),
                                   !.program_counter = pc + 2]
            ELSE [Same EXCEPT !.heap = heap \o Zeros(Reg(Byte(1))),
                              !.program_counter = pc + 2]
      [] op = "INC" ->
            IF ~OneReg THEN Panic
            ELSE IF Reg(Byte(1)) = I32Max /\ overflow_checks THEN Panic
            ELSE [Same EXCEPT !.registers[Byte(1)] = WrapAdd(Reg(Byte(1)), 1),
                              !.program_counter = pc + 2]
      [] op = "DEC" ->
            IF ~OneReg THEN Panic
            ELSE IF Reg(Byte(1)) = I32Min /\ overflow_checks THEN Panic
            ELSE [Same EXCEPT !.registers[Byte(1)] = WrapSub(Reg(Byte(1)), 1),
                              !.program_counter = pc + 2]
      [] OTHER -> [Unchanged("none", op) EXCEPT !.program_counter = pc + 1]

\* an execute_instruction that steps over a byte even at the end of the
\* buffer: the variant the halt-at-end property has to tell from the guard
ExecuteInstructionPastEnd ==
    IF ~(program_counter >= 0 /\ program_counter < Len(program))
    THEN [Unchanged("none", "-") EXCEPT !.program_counter = program_counter + 1]
    ELSE ExecuteOpcode(OpcodeFromU8(program[program_counter + 1]))

\* an execute_instruction whose HLT and default arms leave the counter on
\* the opcode byte: the variant the one-byte property has to tell from
\* decode_opcode's increment
ExecuteInstructionHaltInPlace ==
    IF ~(program_counter >= 0 /\ program_counter < Len(program))
    THEN Unchanged("none", "-")
    ELSE IF OpcodeFromU8(program[program_counter + 1]) \in {"HLT", "IGL"}
    THEN Unchanged("none", OpcodeFromU8(program[program_counter + 1]))
    ELSE ExecuteOpcode(OpcodeFromU8(program[program_counter + 1]))

\* VM::execute_instruction
ExecuteInstruction ==
    IF ~(program_counter >= 0 /\ program_counter < Len(program))
    THEN Unchanged("none", "-")
    ELSE ExecuteOpcode(OpcodeFromU8(program[program_counter + 1]))

\* VM::has_valid_header: program[..4] == PIE_HEADER_PREFIX; slicing a buffer
\* shorter than 4 bytes panics
\* a validation that looks at three bytes only: the variant the header
\* property has to tell from has_valid_header
HasValidHeaderFirstThree(buf) ==
    IF Len(buf) < 4 THEN "panic"
    ELSE IF SubSeq(buf, 1, 3) = SubSeq(PIE_HEADER_PREFIX, 1, 3) THEN "true"
    ELSE "false"

HasValidHeader(buf) ==
    IF Len(buf) < 4 THEN "panic"
    ELSE IF SubSeq(buf, 1, 4) = PIE_HEADER_PREFIX THEN "true"
    ELSE "false"


-----------------------------------------------------------------------------
(* The virtual machine: its entry points *)

NoCall == [call |-> "new", op |-> "-", at |-> 0, out |-> "-"]

\* the effect of one execute_instruction call made by `call`
Step(call) ==
    LET r == ExecuteInstruction IN
    /\ Len(r.heap) <= MaxHeap
    /\ r.op # "-" => steps < MaxSteps
    /\ registers' = r.registers
    /\ program_counter' = r.program_counter
    /\ heap' = r.heap
    /\ remainder' = r.remainder
    /\ equal_flag' = r.equal_flag
    /\ crashed' = (r.out = "panic")
    /\ steps' = IF r.op # "-" THEN steps + 1 ELSE steps
    /\ last' = [call |-> call, op |-> r.op, at |-> program_counter, out |-> r.out]
    /\ UNCHANGED <<program, overflow_checks, commands>>

\* an add_program that puts the new bytes in front of the buffer: the
\* variant the append property has to tell from extend_from_slice
AddProgramFront(bytes) ==
    /\ ~crashed
    /\ ctl = "idle"
    /\ program' = bytes \o program
    /\ last' = [call |-> "add_program", op |-> "-", at |-> program_counter, out |-> "-"]
    /\ UNCHANGED <<registers, program_counter, heap, remainder, equal_flag,
                   overflow_checks, commands, crashed, ctl, steps>>

\* VM::add_program
AddProgram(bytes) ==
    /\ ~crashed
    /\ ctl = "idle"
    /\ program' = program \o bytes
    /\ last' = [call |-> "add_program", op |-> "-", at |-> program_counter, out |-> "-"]
    /\ UNCHANGED <<registers, program_counter, heap, remainder, equal_flag,
                   overflow_checks, commands, crashed, ctl, steps>>

\* VM::run_once
RunOnce ==
    /\ ~crashed
    /\ ctl = "idle"
    /\ Step("run_once")
    /\ UNCHANGED <<ctl, asmvars>>

\* a run() that sets the counter only on a VM that has not run yet: the
\* variant the start-at-64 property has to tell from run()
RunBeginKeepCounter ==
    /\ ~crashed
    /\ ctl = "idle"
    /\ LET valid == HasValidHeader(program) IN
       /\ crashed' = (valid = "panic")
       /\ program_counter' = IF valid = "true" /\ program_counter = 0
                             THEN HeaderLength ELSE program_counter
       /\ ctl' = IF valid = "true" THEN "cond" ELSE "idle"
       /\ last' = [call |-> "run", op |-> "-", at |-> program_counter,
                   out |-> CASE valid = "true" -> "started"
                             [] valid = "false" -> "invalid_header"
                             [] OTHER -> "panic"]
    /\ UNCHANGED <<registers, program, heap, remainder, equal_flag,
                   overflow_checks, commands, steps, asmvars>>

\* VM::run up to its loop: the header check and the jump over the header
RunBegin ==
    /\ ~crashed
    /\ ctl = "idle"
    /\ LET valid == HasValidHeader(program) IN
       /\ crashed' = (valid = "panic")
       /\ program_counter' = IF valid = "true" THEN HeaderLength ELSE program_counter
       /\ ctl' = IF valid = "true" THEN "cond" ELSE "idle"
       /\ last' = [call |-> "run", op |-> "-", at |-> program_counter,
                   out |-> CASE valid = "true" -> "started"
                             [] valid = "false" -> "invalid_header"
                             [] OTHER -> "panic"]
    /\ UNCHANGED <<registers, program, heap, remainder, equal_flag,
                   overflow_checks, commands, steps, asmvars>>

\* VM::run, the call in the loop condition:
\* while self.execute_instruction().is_some()
RunCond ==
    /\ ~crashed
    /\ ctl = "cond"
    /\ Step("run_cond")
    /\ ctl' = IF ExecuteInstruction.out = "some" THEN "body" ELSE "idle"
    /\ UNCHANGED asmvars

\* VM::run, the call in the loop body, whose result is dropped
RunBody ==
    /\ ~crashed
    /\ ctl = "body"
    /\ Step("run_body")
    /\ ctl' = IF ExecuteInstruction.out = "panic" THEN "idle" ELSE "cond"
    /\ UNCHANGED asmvars


-----------------------------------------------------------------------------
(* The parser (parser.rs): nom combinators over the characters of the text *)

Lowers == "abcdefghijklmnopqrstuvwxyz"
Uppers == "ABCDEFGHIJKLMNOPQRSTUVWXYZ"
Digits == "0123456789"

Chars(s) == { SubSeq(s, i, i) : i \in 1..Len(s) }
IndexIn(c, s) == CHOOSE i \in 1..Len(s) : SubSeq(s, i, i) = c

Alpha == Chars(Lowers) \cup Chars(Uppers)
Digit == Chars(Digits)
Alphanumeric == Alpha \cup Digit
Space == {" ", "\t"}
Multispace == {" ", "\t", "\r", "\n"}

Take(s, n) == SubSeq(s, 1, n)
Drop(s, n) == SubSeq(s, n + 1, Len(s))

\* the length of the longest prefix of s made of characters of class
RECURSIVE PrefixLen(_, _)
PrefixLen(s, class) ==
    IF s = "" THEN 0
    ELSE IF Head(s) \in class THEN 1 + PrefixLen(Tail(s), class)
    ELSE 0

\* str::to_lowercase on ASCII letters
RECURSIVE ToLowercase(_)
ToLowercase(s) ==
    IF s = "" THEN ""
    ELSE (IF Head(s) \in Chars(Uppers)
          THEN SubSeq(Lowers, IndexIn(Head(s), Uppers), IndexIn(Head(s), Uppers))
          ELSE Head(s)) \o ToLowercase(Tail(s))

\* Token: one record shape for all variants; None is the absent Option
Token(tok, name, num) == [tok |-> tok, name |-> name, num |-> num]
None == Token("None", "", 0)

\* IResult: Ok((rest, out)) or Err
Ok(rest, out) == [ok |-> TRUE, rest |-> rest, out |-> out]
Err(input) == [ok |-> FALSE, rest |-> input, out |-> None]

\* alpha1, alphanumeric1, digit1: at least one character of the class
TakeWhile1(input, class) ==
    LET n == PrefixLen(input, class) IN
    IF n = 0 THEN Err(input) ELSE Ok(Drop(input, n), Take(input, n))

\* space0, multispace0: never fail
Space0(input) == Drop(input, PrefixLen(input, Space))
Multispace0(input) == Drop(input, PrefixLen(input, Multispace))

\* tag(t)
Tag(t, input) ==
    IF Len(input) >= Len(t) /\ Take(input, Len(t)) = t
    THEN Ok(Drop(input, Len(t)), t)
    ELSE Err(input)

\* opt(p) given p's result r: None and the input untouched when p fails
Opt(r, input) == IF r.ok THEN r ELSE Ok(input, None)

\* alt((p, q)) given their results: q's when p fails
Alt(p, q) == IF p.ok THEN p ELSE q

\* tuple((p1, p2, ...)): each parser runs on what the one before left; the
\* outputs are collected in order, and the first failure fails the tuple
Tuple0(input) == [ok |-> TRUE, rest |-> input, out |-> <<>>]
Then(t, r) ==
    IF t.ok /\ r.ok THEN [ok |-> TRUE, rest |-> r.rest, out |-> Append(t.out, r.out)]
    ELSE [ok |-> FALSE, rest |-> t.rest, out |-> t.out]

\* str::parse::<u8>() / str::parse::<i32>() of a digit string: the value,
\* or -1 when it does not fit (max is the largest value of the type)
RECURSIVE ParseDigits(_, _, _)
ParseDigits(ds, acc, max) ==
    IF ds = "" THEN acc
    ELSE LET d == IndexIn(Head(ds), Digits) - 1 IN
         IF acc > (max - d) \div 10 THEN -1
         ELSE ParseDigits(Tail(ds), acc * 10 + d, max)

\* impl From<&str> for Opcode (instruction.rs)
OpcodeFromStr(v) ==
    CASE v = "load" -> "LOAD"
      [] v = "add" -> "ADD"
      [] v = "sub" -> "SUB"
      [] v = "mul" -> "MUL"
      [] v = "div" -> "DIV"
      [] v = "hlt" -> "HLT"
      [] v = "jmp" -> "JMP"
      [] v = "jmpf" -> "JMPF"
      [] v = "jmpb" -> "JMPB"
      [] v = "eq" -> "EQ"
      [] v = "neq" -> "NEQ"
      [] v = "gt" -> "GT"
      [] v = "lt" -> "LT"
      [] v = "gte" -> "GTE"
      [] v = "lte" -> "LTE"
      [] v = "jeq" -> "JEQ"
      [] v = "jneq" -> "JNEQ"
      [] OTHER -> "IGL"

\* Token::parse_opcode: map(alpha1, |opcode| Token::Opcode(..to_lowercase()..))
OpcodeToken(input, w) ==
    IF ~w.ok THEN Err(input)
    ELSE Ok(w.rest, Token("Opcode", OpcodeFromStr(ToLowercase(w.out)), 0))
TokenParseOpcode(input) == OpcodeToken(input, TakeWhile1(input, Alpha))

\* the second parser of a pair, run on what the first left
AfterTag(mark, class) == IF mark.ok THEN TakeWhile1(mark.rest, class) ELSE mark
BeforeTag(word, t) == IF word.ok THEN Tag(t, word.rest) ELSE word

\* Token::parse_directive: tuple((tag("."), alpha1))
DirectiveToken(input, w) ==
    IF ~w.ok THEN Err(input) ELSE Ok(w.rest, Token("Directive", w.out, 0))
TokenParseDirective(input) ==
    DirectiveToken(input, AfterTag(Tag(".", input), Alpha))

\* map_res(digit1, |s| s.parse::<T>()): the digits must fit the type
Parsed(input, rest, n) == IF n < 0 THEN Err(input) ELSE Ok(rest, n)
DigitsParsed(input, ds, max) ==
    IF ~ds.ok THEN Err(input)
    ELSE Parsed(input, ds.rest, ParseDigits(ds.out, 0, max))

\* preceded(space0, preceded(tag(sigil), map_res(digit1, parse)))
Number(sigil, max, input) ==
    DigitsParsed(input, AfterTag(Tag(sigil, Space0(input)), Digit), max)

\* Token::parse_register
RegisterToken(n) == IF ~n.ok THEN n ELSE Ok(n.rest, Token("Register", "", n.out))
TokenParseRegister(input) == RegisterToken(Number("$", U8 - 1, input))

\* Token::parse_operand
OperandToken(n) == IF ~n.ok THEN n ELSE Ok(n.rest, Token("Operand", "", n.out))
TokenParseOperand(input) == OperandToken(Number("#", I32Max, input))

\* Token::parse_label_declaration: terminated(alphanumeric1, tag(":")),
\* then space0
LabelDeclarationToken(input, name, colon) ==
    IF ~colon.ok THEN Err(input)
    ELSE Ok(Space0(colon.rest), Token("LabelDeclaration", name.out, 0))
LabelDeclarationOf(input, name) ==
    LabelDeclarationToken(input, name, BeforeTag(name, ":"))
TokenParseLabelDeclaration(input) ==
    LabelDeclarationOf(input, TakeWhile1(input, Alphanumeric))

\* Token::parse_label_usage: space0, tag("@"), alphanumeric1
LabelUsageToken(input, name) ==
    IF ~name.ok THEN Err(input) ELSE Ok(name.rest, Token("LabelUsage", name.out, 0))
TokenParseLabelUsage(input) ==
    LabelUsageToken(input, AfterTag(Tag("@", Space0(input)), Alphanumeric))

\* Token::parse_string: delimited(char('\''), take_until("'"), char('\''))
StringToken(input, open, n) ==
    IF ~open.ok \/ n = Len(open.rest) THEN Err(input)
    ELSE Ok(Drop(open.rest, n + 1), Token("String", Take(open.rest, n), 0))
StringOf(input, open) ==
    StringToken(input, open, PrefixLen(open.rest, Chars(open.rest) \ {"'"}))
TokenParseString(input) == StringOf(input, Tag("'", Space0(input)))

\* AssemblerInstruction::parse_operand: alt((parse_operand, parse_register))
InstructionParseOperand(input) ==
    Alt(TokenParseOperand(input), TokenParseRegister(input))

\* AssemblerInstruction::parse_label
InstructionParseLabel(input) ==
    Alt(TokenParseLabelDeclaration(input), TokenParseLabelUsage(input))

\* the members of the two tuples, each run on what the one before left
ThenLabelDeclaration(t) == Then(t, Opt(TokenParseLabelDeclaration(t.rest), t.rest))
ThenOpcode(t) == Then(t, TokenParseOpcode(t.rest))
ThenLabelUsage(t) == Then(t, Opt(TokenParseLabelUsage(t.rest), t.rest))
ThenLabel(t) == Then(t, Opt(InstructionParseLabel(t.rest), t.rest))
ThenDirective(t) == Then(t, TokenParseDirective(t.rest))
ThenOperand(t) == Then(t, Opt(InstructionParseOperand(t.rest), t.rest))
ThenString(t) == Then(t, Opt(TokenParseString(t.rest), t.rest))

\* AssemblerInstruction::parse_opcode: the tuple, then the map_res closure
OpcodeInstruction(input, t) ==
    IF ~t.ok THEN Err(input)
    ELSE Ok(t.rest,
            [opcode |-> t.out[2],
             label |-> IF t.out[1] # None THEN t.out[1] ELSE t.out[3],
             directive |-> None,
             operand1 |-> t.out[4], operand2 |-> t.out[5], operand3 |-> t.out[6],
             string |-> None])
InstructionParseOpcode(input) ==
    OpcodeInstruction(input,
        ThenString(ThenOperand(ThenOperand(ThenOperand(ThenLabelUsage(
            ThenOpcode(ThenLabelDeclaration(Tuple0(input)))))))))

\* a directive form that also fills the opcode field, with the illegal
\* opcode: the variant the one-of-two property has to tell from the closure
\* of parse_directive
DirectiveInstructionWithOpcode(input, t) ==
    IF ~t.ok THEN Err(input)
    ELSE Ok(t.rest,
            [opcode |-> Token("Opcode", "IGL", 0),
             label |-> t.out[1],
             directive |-> t.out[2],
             operand1 |-> t.out[3], operand2 |-> t.out[4], operand3 |-> t.out[5],
             string |-> t.out[6]])

\* AssemblerInstruction::parse_directive: the tuple, then the map_res closure
DirectiveInstruction(input, t) ==
    IF ~t.ok THEN Err(input)
    ELSE Ok(t.rest,
            [opcode |-> None,
             label |-> t.out[1],
             directive |-> t.out[2],
             operand1 |-> t.out[3], operand2 |-> t.out[4], operand3 |-> t.out[5],
             string |-> t.out[6]])
InstructionParseDirective(input) ==
    DirectiveInstruction(input,
        ThenString(ThenOperand(ThenOperand(ThenOperand(
            ThenDirective(ThenLabel(Tuple0(input))))))))

\* AssemblerInstruction::parse: alt((parse_opcode, parse_directive))
InstructionParse(input) ==
    Alt(InstructionParseOpcode(input), InstructionParseDirective(input))

\* the loop of many1(terminated(AssemblerInstruction::parse, multispace0)):
\* the instructions parsed until the first failure, and the text left there
RECURSIVE ManyInstructions(_)
Parsing(rest, instructions) == [rest |-> rest, instructions |-> instructions]
Prepend(out, more) == Parsing(more.rest, <<out>> \o more.instructions)
ManyFrom(input, r) ==
    IF ~r.ok THEN Parsing(input, <<>>)
    ELSE Prepend(r.out, ManyInstructions(Multispace0(r.rest)))
ManyInstructions(input) == ManyFrom(input, InstructionParse(input))

\* Program::parse: many1 fails when not even one instruction is parsed
Many1(m) ==
    [ok |-> Len(m.instructions) > 0, rest |-> m.rest, instructions |-> m.instructions]
ProgramParse(input) == Many1(ManyInstructions(input))

-----------------------------------------------------------------------------
(* The encoder (parser.rs) and the assembler (assembler.rs) *)

\* `opcode as u8`: the position of the variant in enum Opcode (instruction.rs)
OpcodeAsU8(op) ==
    CASE op = "LOAD" -> 0
      [] op = "ADD" -> 1
      [] op = "SUB" -> 2
      [] op = "MUL" -> 3
      [] op = "DIV" -> 4
      [] op = "HLT" -> 5
      [] op = "JMP" -> 6
      [] op = "JMPF" -> 7
      [] op = "JMPB" -> 8
      [] op = "EQ" -> 9
      [] op = "NEQ" -> 10
      [] op = "GT" -> 11
      [] op = "LT" -> 12
      [] op = "GTE" -> 13
      [] op = "LTE" -> 14
      [] op = "JEQ" -> 15
      [] op = "JNEQ" -> 16
      [] op = "IGL" -> 17

\* Option<Vec<u8>>
NoBytes == [some |-> FALSE, bytes |-> <<>>]

\* Result<Vec<u8>, String>
Bytes(bytes) == [ok |-> TRUE, bytes |-> bytes]
Failed == [ok |-> FALSE, bytes |-> <<>>]

\* an encoding of immediates with the low byte first: the variant the LOAD
\* round trip has to tell from operand_to_bytes
OperandToBytesLowFirst(token) ==
    CASE token.tok = "Register" -> Bytes(<<token.num>>)
      [] token.tok = "Operand" ->
            Bytes(<<(token.num % U16) % U8, (token.num % U16) \div U8>>)
      [] token.tok = "None" -> Bytes(<<>>)
      [] OTHER -> Failed

\* an encoding of immediates that keeps the low byte only: the variant the
\* operand encoding property has to tell from operand_to_bytes
OperandToBytesOneByte(token) ==
    CASE token.tok = "Register" -> Bytes(<<token.num>>)
      [] token.tok = "Operand" -> Bytes(<<token.num % U8>>)
      [] token.tok = "None" -> Bytes(<<>>)
      [] OTHER -> Failed

\* AssemblerInstruction::operand_to_bytes
OperandToBytes(token) ==
    CASE token.tok = "Register" -> Bytes(<<token.num>>)
      [] token.tok = "Operand" ->
            \* *n as u16, then (val >> 8) as u8 and val as u8
            Bytes(<<(token.num % U16) \div U8, (token.num % U16) % U8>>)
      [] token.tok = "None" -> Bytes(<<>>)
      [] OTHER -> Failed

\* while bytes.len() < 4 { bytes.push(0) }
Pad(bytes) ==
    IF Len(bytes) < RecordWidth THEN bytes \o Zeros(RecordWidth - Len(bytes))
    ELSE bytes

\* AssemblerInstruction::to_bytes
Record(opcode, b1, b2, b3) ==
    IF ~(b1.ok /\ b2.ok /\ b3.ok) THEN Failed
    ELSE Bytes(Pad(<<OpcodeAsU8(opcode.name)>> \o b1.bytes \o b2.bytes \o b3.bytes))
\* an encoder that gives a label usage an operand byte of its own: the
\* variant the label-independence property has to tell from to_bytes
InstructionToBytesWithLabel(instruction) ==
    IF instruction.opcode.tok # "Opcode" THEN Failed
    ELSE Record(instruction.opcode,
                IF instruction.label.tok = "LabelUsage" THEN Bytes(<<255>>)
                ELSE OperandToBytes(instruction.operand1),
                OperandToBytes(instruction.operand2),
                OperandToBytes(instruction.operand3))

InstructionToBytes(instruction) ==
    IF instruction.opcode.tok # "Opcode" THEN Failed
    ELSE Record(instruction.opcode,
                OperandToBytes(instruction.operand1),
                OperandToBytes(instruction.operand2),
                OperandToBytes(instruction.operand3))

\* Program::to_bytes and Assembler::process_second_phase: the records one
\* after the other, or the first failure
RECURSIVE ProgramToBytes(_)
\* a collection that skips the instructions that fail and keeps the bytes
\* of the others: the variant the all-or-nothing property has to tell from
\* the `?` of process_second_phase
ConcatSkipFailed(first, others) ==
    Bytes(first.bytes \o others.bytes)

Concat(first, others) ==
    IF ~first.ok \/ ~others.ok THEN Failed ELSE Bytes(first.bytes \o others.bytes)
ProgramToBytes(instructions) ==
    IF instructions = <<>> THEN Bytes(<<>>)
    ELSE Concat(InstructionToBytes(Head(instructions)),
                ProgramToBytes(Tail(instructions)))

\* SymbolTable::add_symbol: self.symbols.push(s)
AddSymbol(table, s) == Append(table, s)

\* a lookup that returns the symbol added last: the variant the
\* earliest-match property has to tell from iter().find()
RECURSIVE SymbolOffsetLast(_, _)
SymbolOffsetLast(table, s) ==
    IF table = <<>> THEN [some |-> FALSE, offset |-> 0]
    ELSE IF table[Len(table)].name = s
    THEN [some |-> TRUE, offset |-> table[Len(table)].offset]
    ELSE SymbolOffsetLast(SubSeq(table, 1, Len(table) - 1), s)

\* SymbolTable::symbol_offset: iter().find(name == s).map(offset); the
\* Option<u32> as [some, offset]
RECURSIVE SymbolOffset(_, _)
SymbolOffset(table, s) ==
    IF table = <<>> THEN [some |-> FALSE, offset |-> 0]
    ELSE IF Head(table).name = s
    THEN [some |-> TRUE, offset |-> Head(table).offset]
    ELSE SymbolOffset(Tail(table), s)

\* a first pass whose offset advances only past the instructions that
\* carry a label declaration: the variant the symbol offsets have to tell
\* from extract_labels
RECURSIVE ExtractLabelsCounted(_, _)
ExtractLabelsCounted(instructions, offset) ==
    IF instructions = <<>> THEN <<>>
    ELSE IF Head(instructions).label.tok = "LabelDeclaration"
    THEN <<[name |-> Head(instructions).label.name,
            symbol_type |-> "Label", offset |-> offset]>>
         \o ExtractLabelsCounted(Tail(instructions), offset + 4)
    ELSE ExtractLabelsCounted(Tail(instructions), offset)

\* Assembler::extract_labels: the symbols added, in order
RECURSIVE ExtractLabels(_, _)
ExtractLabels(instructions, offset) ==
    IF instructions = <<>> THEN <<>>
    ELSE (IF Head(instructions).label.tok = "LabelDeclaration"
          THEN <<[name |-> Head(instructions).label.name,
                  symbol_type |-> "Label", offset |-> offset]>>
          ELSE <<>>)
         \o ExtractLabels(Tail(instructions), offset + 4)

\* Result::ok(): Some(bytes) or None
ResultOk(encoded) ==
    IF encoded.ok THEN [some |-> TRUE, bytes |-> encoded.bytes] ELSE NoBytes

\* Assembler::assemble as a function of the text: what it returns, and the
\* symbols process_first_phase adds
Assembling(parsed) ==
    IF ~parsed.ok
    THEN [parsed |-> FALSE, out |-> NoBytes, added |-> <<>>]
    ELSE [parsed |-> TRUE,
          out |-> ResultOk(ProgramToBytes(parsed.instructions)),
          added |-> ExtractLabels(parsed.instructions, 0)]
AssembleText(raw) == Assembling(ProgramParse(raw))

-----------------------------------------------------------------------------
(* The state after VM::new() and Assembler::new() *)

Init ==
    /\ registers = [i \in 0..(NumRegisters - 1) |-> 0]
    /\ program = <<>>
    /\ program_counter = 0
    /\ heap = <<>>
    /\ remainder = ToU32(0)
    /\ equal_flag = FALSE
    /\ overflow_checks \in BOOLEAN
    /\ crashed = FALSE
    /\ ctl = "idle"
    /\ steps = 0
    /\ last = NoCall
    /\ symbols = <<>>
    /\ phase = "First"
    /\ asm_src = ""
    /\ asm_out = NoBytes
    /\ asm_calls = 0
    /\ commands = 0

-----------------------------------------------------------------------------
(* Specification Spec: the VM stepped with run_once over instruction       *)
(* records, as the unit tests of vm.rs drive it                            *)

\* instruction records: every opcode of the table, an illegal opcode byte
Records ==
    { <<0, 0, 255, 255>>,   \* LOAD $0 #65535
      <<0, 1, 0, 2>>,       \* LOAD $1 #2
      <<1, 0, 1, 2>>,       \* ADD $0 $1 $2
      <<2, 1, 0, 1>>,       \* SUB $1 $0 $1
      <<3, 0, 0, 0>>,       \* MUL $0 $0 $0
      <<4, 0, 1, 2>>,       \* DIV $0 $1 $2
      <<5, 0, 0, 0>>,       \* HLT
      <<6, 1, 0, 0>>,       \* JMP $1
      <<7, 1, 0, 0>>,       \* JMPF $1
      <<8, 1, 0, 0>>,       \* JMPB $1
      <<9, 0, 1, 0>>,       \* EQ $0 $1
      <<10, 0, 1, 0>>,      \* NEQ $0 $1
      <<11, 0, 1, 0>>,      \* GT $0 $1
      <<12, 0, 1, 0>>,      \* LT $0 $1
      <<13, 0, 1, 0>>,      \* GTE $0 $1
      <<14, 0, 1, 0>>,      \* LTE $0 $1
      <<15, 1, 0, 0>>,      \* JEQ $1
      <<16, 1, 0, 0>>,      \* JNEQ $1
      <<17, 1, 0, 0>>,      \* ALOC $1
      <<18, 1, 0, 0>>,      \* INC $1
      <<19, 1, 0, 0>>,      \* DEC $1
      <<255, 0, 0, 0>> }    \* an opcode byte outside the table

\* add_program with one more record
LoadRecord ==
    /\ Len(program) < MaxRecords * RecordWidth
    /\ \E bytes \in Records : AddProgram(bytes)
    /\ UNCHANGED asmvars

Next ==
    \/ LoadRecord
    \/ RunOnce

Spec == Init /\ [][Next]_vars

-----------------------------------------------------------------------------
(* Specification SpecRun: VM::run on buffers with and without a header     *)

\* prepend_header (vm.rs, test helper): the magic sequence and 60 zero bytes
Header == PIE_HEADER_PREFIX \o Zeros(HeaderLength - 4)

\* other first chunks: a header with reserved bytes in use, the magic
\* sequence with nothing after it, headers that differ from the magic
\* sequence in one byte, and buffers shorter than 4
OtherFirstChunks ==
    { PIE_HEADER_PREFIX \o [i \in 1..(HeaderLength - 4) |-> 5],
      PIE_HEADER_PREFIX,
      Zeros(HeaderLength),
      <<45, 50, 49, 44>> \o Zeros(HeaderLength - 4),
      <<44, 50, 49, 45>> \o Zeros(HeaderLength - 4),
      <<45, 50, 49>>,
      <<45>> }

RunRecords ==
    { <<0, 1, 0, 2>>,       \* LOAD $1 #2
      <<18, 1, 0, 0>>,      \* INC $1
      <<9, 0, 1, 0>>,       \* EQ $0 $1
      <<5, 0, 0, 0>>,       \* HLT
      <<255, 0, 0, 0>> }    \* an opcode byte outside the table

\* the number of whole records after the header, if there is one
RecordsIn(buf) ==
    IF Len(buf) >= HeaderLength THEN (Len(buf) - HeaderLength) \div RecordWidth
    ELSE Len(buf) \div RecordWidth

\* add_program with a first chunk, or with one more record
LoadChunk ==
    \/ /\ program = <<>>
       /\ \E bytes \in {Header} \cup OtherFirstChunks : AddProgram(bytes)
       /\ UNCHANGED asmvars
    \/ /\ Len(program) % RecordWidth = 0
       /\ RecordsIn(program) < MaxRunRecords
       /\ \E bytes \in RunRecords : AddProgram(bytes)
       /\ UNCHANGED asmvars

NextRun ==
    \/ LoadChunk
    \/ RunOnce
    \/ RunBegin
    \/ RunCond
    \/ RunBody

SpecRun == Init /\ [][NextRun]_vars

-----------------------------------------------------------------------------
(* Specification SpecAsm: Assembler::assemble on source texts *)

\* the sequences over S of length lo..hi
SeqsOf(S, lo, hi) == UNION { [1..n -> S] : n \in lo..hi }

\* the lines joined by line feeds
RECURSIVE Join(_)
Join(lines) ==
    IF Len(lines) = 0 THEN ""
    ELSE IF Len(lines) = 1 THEN lines[1]
    ELSE lines[1] \o "\n" \o Join(Tail(lines))

\* the mnemonics of the instruction table, in the order of their byte codes
Mnemonics ==
    <<"load", "add", "sub", "mul", "div", "hlt", "jmp", "jmpf", "jmpb", "eq",
      "neq", "gt", "lt", "gte", "lte", "jeq", "jneq", "aloc", "inc", "dec">>

\* an opcode with every combination of 0 to 3 register and immediate operands
OperandTexts == {"", " $1", " #300"}
OperandLines == { "add" \o a \o b \o c : a \in OperandTexts, b \in OperandTexts, c \in OperandTexts }

\* single lines: mnemonics in both cases, a word outside the table, operand
\* combinations, numbers that do not fit, labels, directives, a line that
\* starts with an operand; and a label declared after an instruction with
\* two immediates
OneLiners ==
    { Mnemonics[i] : i \in 1..Len(Mnemonics) }
    \cup { "LOAD", "Jmpf", "alod" }
    \cup OperandLines
    \cup { "load $255 #65535", "load $256", "load #70000", "load #2147483648",
           "test: inc $0", "jeq @test", ".data", "test: .asciiz 'x'", "$1",
           "hlt:", "add #300 #300\ntest: inc $0" }

\* the lines that programs of several lines are made of
ProgramLines ==
    { "load $0 #500", "test: inc $0", "jeq @test", "hlt", ".data", "$1" }

AsmSources ==
    OneLiners \cup { Join(ls) : ls \in SeqsOf(ProgramLines, 2, MaxLines) }

\* the text of `load $r #v`
LoadLine(r, v) == "load $" \o ToString(r) \o " #" \o ToString(v)

PipeRegisters == {0, 31}
PipeImmediates == {255, 256, 65535}
PipeSources ==
    { LoadLine(r, v) : r \in PipeRegisters, v \in PipeImmediates } \cup {"hlt"}

\* Assembler::assemble on each source text the specifications use
Assembled == [raw \in AsmSources \cup PipeSources |-> AssembleText(raw)]

\* Assembler::assemble: the assembler's side of the call
AssembleCall(raw) ==
    LET r == Assembled[raw] IN
    /\ asm_calls < MaxAssemble
    /\ asm_src' = raw
    /\ asm_out' = r.out
    /\ symbols' = symbols \o r.added
    /\ phase' = IF r.parsed THEN "Second" ELSE phase
    /\ asm_calls' = asm_calls + 1

Assemble ==
    /\ \E raw \in AsmSources : AssembleCall(raw)
    /\ last' = [call |-> "assemble", op |-> "-", at |-> program_counter, out |-> "-"]
    /\ UNCHANGED <<vmvars, overflow_checks, commands, crashed, ctl, steps>>

NextAsm == Assemble

SpecAsm == Init /\ [][NextAsm]_vars

-----------------------------------------------------------------------------
(* Specification SpecPipe: source text assembled, loaded and run, as run    *)
(* in cli.rs does                                                          *)

\* vm.add_program(header) on a new VM: what prepend_header builds
LoadHeader ==
    /\ program = <<>>
    /\ AddProgram(Header)
    /\ UNCHANGED asmvars

\* if let Some(bytes) = assembler.assemble(&program) { vm.add_program(bytes) }
AssembleAndLoad ==
    /\ ~crashed
    /\ ctl = "idle"
    /\ \E raw \in PipeSources :
         /\ AssembleCall(raw)
         /\ program' = program \o Assembled[raw].out.bytes
    /\ last' = [call |-> "assemble", op |-> "-", at |-> program_counter, out |-> "-"]
    /\ UNCHANGED <<registers, program_counter, heap, remainder, equal_flag,
                   overflow_checks, commands, crashed, ctl, steps>>

NextPipe ==
    \/ LoadHeader
    \/ AssembleAndLoad
    \/ RunOnce
    \/ RunBegin
    \/ RunCond
    \/ RunBody

SpecPipe == Init /\ [][NextPipe]_vars

-----------------------------------------------------------------------------
(* Specification SpecUnit: the pattern of the unit tests of vm.rs: the     *)
(* registers (a pub field), the flag and the heap are written directly on  *)
(* a new VM, a program is added and run_once steps through it.  Every      *)
(* value written is one that instructions can also produce.  Register 0    *)
(* takes the small values (jump offsets, heap sizes, divisors), register 1 *)
(* the wide ones, so that every program counter the jumps produce stays    *)
(* in the range of the model's integers.                                   *)

\* <<registers[0], registers[1]>>
UnitPairs ==
    { <<0, 0>>, <<0, 5>>, <<2, 7>>, <<2, -7>>, <<-2, 7>>, <<7, 7>>, <<-7, -7>>,
      <<4, 4>>, <<-1, I32Min>>, <<1, I32Max>> }

\* heap.extend_from_slice(&[0u8; n]) of test_opcode_aloc_extend_heap
UnitHeaps == {0, 2}

UnitRecords ==
    { <<4, 1, 0, 2>>,       \* DIV $1 $0 $2
      <<9, 1, 0, 0>>,       \* EQ $1 $0
      <<10, 1, 0, 0>>,      \* NEQ $1 $0
      <<11, 1, 0, 0>>,      \* GT $1 $0
      <<12, 1, 0, 0>>,      \* LT $1 $0
      <<13, 1, 0, 0>>,      \* GTE $1 $0
      <<14, 1, 0, 0>>,      \* LTE $1 $0
      <<6, 0, 0, 0>>,       \* JMP $0
      <<7, 0, 0, 0>>,       \* JMPF $0
      <<8, 0, 0, 0>>,       \* JMPB $0
      <<15, 0, 0, 0>>,      \* JEQ $0
      <<16, 0, 0, 0>>,      \* JNEQ $0
      <<17, 0, 0, 0>>,      \* ALOC $0
      <<18, 1, 0, 0>>,      \* INC $1
      <<19, 1, 0, 0>> }     \* DEC $1

\* vm.registers[0] = a; vm.registers[1] = b; vm.equal_flag = flag;
\* vm.heap.extend_from_slice(&[0u8; n]) on a new VM
Arrange ==
    /\ last = NoCall
    /\ \E pair \in UnitPairs, flag \in BOOLEAN, n \in UnitHeaps :
         /\ registers' = [registers EXCEPT ![0] = pair[1], ![1] = pair[2]]
         /\ equal_flag' = flag
         /\ heap' = Zeros(n)
    /\ last' = [call |-> "arrange", op |-> "-", at |-> program_counter, out |-> "-"]
    /\ UNCHANGED <<program, program_counter, remainder, overflow_checks, commands,
                   crashed, ctl, steps, asmvars>>

\* add_program with one more record
LoadUnitRecord ==
    /\ Len(program) < MaxUnitRecords * RecordWidth
    /\ \E bytes \in UnitRecords : AddProgram(bytes)
    /\ UNCHANGED asmvars

NextUnit ==
    \/ Arrange
    \/ LoadUnitRecord
    \/ RunOnce

SpecUnit == Init /\ [][NextUnit]_vars

-----------------------------------------------------------------------------
(* Specification SpecRepl: the interactive session of repl.rs: each        *)
(* command that is not a `!` command is parsed and encoded, the bytes are  *)
(* appended to the program of the session's VM, and run_once is called     *)

\* command lines (trimmed): instructions, one of them on a register past
\* the register file, a directive, a line that starts with an operand, a
\* good instruction followed by a directive
ReplCommands ==
    { "load $0 #2", "load $1 #2", "load $32 #2", "add $0 $1 $0", "eq $0 $1",
      "hlt", "jeq $1", "jmp $0", ".data", "$1", "load $0 #2 .data" }

\* Program::parse and Program::to_bytes on each command
Commanded == [command \in ReplCommands |-> AssembleText(command)]

\* REPL::run, the command pushed to command_buffer and the `_` arm up to
\* extend_from_slice: a parse error or an encode error is printed and the
\* loop continues with the next command
ReplRead ==
    /\ ~crashed
    /\ ctl = "idle"
    /\ commands < MaxCommands
    /\ commands' = commands + 1
    /\ \E command \in ReplCommands :
         /\ asm_src' = command
         /\ asm_out' = Commanded[command].out
         /\ program' = program \o Commanded[command].out.bytes
         /\ ctl' = IF Commanded[command].out.some THEN "repl" ELSE "idle"
         /\ last' = [call |-> "repl", op |-> "-", at |-> program_counter,
                     out |-> CASE ~Commanded[command].parsed -> "parse_error"
                               [] ~Commanded[command].out.some -> "encode_error"
                               [] OTHER -> "appended"]
    /\ UNCHANGED <<registers, program_counter, heap, remainder, equal_flag,
                   overflow_checks, crashed, steps, symbols, phase, asm_calls>>

\* REPL::run, the `_` arm: self.vm.run_once() after the bytes are appended
ReplRunOnce ==
    /\ ~crashed
    /\ ctl = "repl"
    /\ Step("run_once")
    /\ ctl' = "idle"
    /\ UNCHANGED asmvars

\* REPL::run, the command pushed to command_buffer and the `!clear` arm:
\* self.vm.program.clear(); no other field of the VM is assigned
ReplClear ==
    /\ ~crashed
    /\ ctl = "idle"
    /\ commands < MaxCommands
    /\ commands' = commands + 1
    /\ program' = <<>>
    /\ last' = [call |-> "clear", op |-> "-", at |-> program_counter,
                out |-> "cleared"]
    /\ UNCHANGED <<registers, program_counter, heap, remainder, equal_flag,
                   overflow_checks, crashed, steps, ctl, asmvars>>

NextRepl ==
    \/ ReplRead
    \/ ReplRunOnce
    \/ ReplClear

SpecRepl == Init /\ [][NextRepl]_vars

-----------------------------------------------------------------------------
(* The claims *)

\* the step is one execute_instruction call that decoded an opcode
Decoded == steps' = steps + 1

\* the first 4 bytes of buf are the magic sequence
HasMagic(buf) ==
    Len(buf) >= 4 /\ \A i \in 1..4 : buf[i] = PIE_HEADER_PREFIX[i]

NonJumpOps ==
    {"LOAD", "ADD", "SUB", "MUL", "DIV", "EQ", "NEQ", "GT", "LT", "GTE", "LTE",
     "ALOC", "INC", "DEC"}

\* C1: when execute_instruction starts at the first byte of a record and the
\* opcode performs no jump (LOAD, ADD, SUB, MUL, DIV, the comparisons, ALOC,
\* INC, DEC, and JEQ/JNEQ whose condition does not hold), the program counter
\* afterwards is 4 more than before.
C1_NonJumpAdvancesOneRecord ==
    [][(/\ Decoded
        /\ ~crashed'
        /\ program_counter % RecordWidth = 0
        /\ \/ last'.op \in NonJumpOps
           \/ last'.op = "JEQ" /\ ~equal_flag
           \/ last'.op = "JNEQ" /\ equal_flag)
       => program_counter' = program_counter + RecordWidth]_vars

RunCalls == {"run_cond", "run_body"}

\* C2: run() stops at the first HLT or illegal opcode it executes: once a call
\* of its loop has decoded one, no later call of that loop decodes an opcode
\* and no register, heap, equal_flag or remainder changes in it.
C2_RunStopsAtFirstHalt ==
    [][(last.call \in RunCalls /\ last.op \in {"HLT", "IGL"} /\ last'.call \in RunCalls)
       => (/\ last'.op = "-"
           /\ UNCHANGED <<registers, heap, equal_flag, remainder>>)]_vars

\* C7: run() on a buffer whose first 4 bytes are not the magic sequence (an
\* empty buffer and one shorter than 4 bytes included) reports the header
\* error and returns, with registers, program counter, heap, remainder and
\* equal_flag unchanged.
C7_BadMagicLeavesStateUnchanged ==
    [][(last'.call = "run" /\ ~HasMagic(program))
       => (/\ last'.out = "invalid_header"
           /\ ~crashed'
           /\ ctl' = "idle"
           /\ UNCHANGED vmvars)]_vars

\* C8: header validation is decided by the first 4 bytes alone: on a buffer
\* of at least 4 bytes has_valid_header is true, and run() starts, exactly
\* when the first 4 bytes are the magic sequence, whatever the rest of the
\* header and the instruction stream contain.
C8_HeaderDecidedByFirstFour ==
    Len(program) >= 4 =>
        /\ HasValidHeader(program) = (IF HasMagic(program) THEN "true" ELSE "false")
        /\ last.call = "run" =>
             last.out = (IF HasMagic(program) THEN "started" ELSE "invalid_header")

\* a run() that started on a buffer whose reserved header bytes are in use
\* and that carries instructions
C8_Witness ==
    /\ last.call = "run"
    /\ last.out = "started"
    /\ Len(program) > HeaderLength
    /\ program[5] # 0

\* the lines of a text
RECURSIVE SplitLines(_)
SplitLines(text) ==
    LET n == PrefixLen(text, Chars(text) \ {"\n"}) IN
    IF n = Len(text) THEN <<text>>
    ELSE <<Take(text, n)>> \o SplitLines(Drop(text, n + 1))

\* the line is one instruction and nothing else
WellFormedLine(line) ==
    /\ InstructionParse(line).ok
    /\ Multispace0(InstructionParse(line).rest) = ""

\* C3: to_bytes returns exactly 4 bytes for every instruction made of an
\* opcode and 0 to 3 register or immediate operands, so the encoding of n
\* instructions is 4n bytes long.
C3_RecordsAreFourBytes ==
    asm_out.some =>
        LET instructions == ProgramParse(asm_src).instructions IN
        /\ \A i \in 1..Len(instructions) :
             Len(InstructionToBytes(instructions[i]).bytes) = RecordWidth
        /\ Len(asm_out.bytes) = RecordWidth * Len(instructions)

OpcodeNames ==
    <<"LOAD", "ADD", "SUB", "MUL", "DIV", "HLT", "JMP", "JMPF", "JMPB", "EQ",
      "NEQ", "GT", "LT", "GTE", "LTE", "JEQ", "JNEQ", "ALOC", "INC", "DEC">>

\* C4: the opcode numbering round-trips between the assembler and the VM:
\* for each of the 20 mnemonics, parsing it gives its opcode, encoding emits
\* the table's byte code (load = 0 ... dec = 19), and the VM's decoder maps
\* that byte back to the same opcode.
C4_OpcodeNumberingRoundTrips ==
    \A i \in 1..Len(Mnemonics) :
        asm_src = Mnemonics[i] =>
            /\ TokenParseOpcode(asm_src).out.name = OpcodeNames[i]
            /\ asm_out.some
            /\ asm_out.bytes[1] = i - 1
            /\ OpcodeFromU8(asm_out.bytes[1]) = OpcodeNames[i]

\* C5: the bytes Assembler::assemble returns start with the 64-byte header
\* (the magic sequence and 60 zero bytes), so a VM whose program is those
\* bytes passes the header validation of run().
C5_AssembledImageHasHeader ==
    asm_out.some =>
        /\ Len(asm_out.bytes) >= HeaderLength
        /\ SubSeq(asm_out.bytes, 1, HeaderLength) = Header
        /\ (program = asm_out.bytes /\ last.call = "run") => last.out = "started"

\* C6: assemble returns bytes only if every line of the text was parsed into
\* an instruction; a malformed line, the first or a later one, makes it
\* return failure and no bytes.
C6_AssembleAllOrNothing ==
    asm_out.some =>
        \A i \in 1..Len(SplitLines(asm_src)) : WellFormedLine(SplitLines(asm_src)[i])

\* the record of `load $r #v` is at the program counter
LoadRecordAt(r, v) ==
    /\ Assembled[LoadLine(r, v)].out.some
    /\ program_counter >= 0
    /\ program_counter + RecordWidth <= Len(program)
    /\ SubSeq(program, program_counter + 1, program_counter + RecordWidth)
         = Assembled[LoadLine(r, v)].out.bytes

\* C9: LOAD round-trips through the assembler and the VM: executing the
\* record that `load $r #v` assembles to sets registers[r] to v and leaves
\* the other registers, equal_flag, remainder and the heap unchanged.
C9_LoadRoundTrip ==
    [][\A r \in PipeRegisters, v \in PipeImmediates :
         (Decoded /\ LoadRecordAt(r, v))
         => (/\ ~crashed'
             /\ registers' = [registers EXCEPT ![r] = v]
             /\ UNCHANGED <<equal_flag, remainder, heap>>)]_vars

\* `load $31 #65535` and then `load $0 #256` assembled, loaded and executed
C9_Witness ==
    /\ asm_src = LoadLine(0, 256)
    /\ last.op = "LOAD"
    /\ last.out = "some"
    /\ last.at = RecordWidth
    /\ registers[31] = 65535
    /\ registers[0] = 256

\* the three-register record at the program counter names registers
ThreeRegistersAt(pc) ==
    /\ pc >= 0
    /\ pc + RecordWidth <= Len(program)
    /\ \A k \in 1..3 : program[pc + k + 1] < NumRegisters

\* the exact sum, difference or product is an i32: the result the claim names
ExactResult(op, a, b) ==
    CASE op = "ADD" -> IF AddOverflows(a, b) THEN <<>> ELSE <<a + b>>
      [] op = "SUB" -> IF SubOverflows(a, b) THEN <<>> ELSE <<a - b>>
      [] op = "MUL" -> IF MulOverflows(a, b) THEN <<>> ELSE <<a * b>>

\* C10: ADD, SUB and MUL r1 r2 r3 set registers[r3] to registers[r1] + / - /
\* * registers[r2], computed from the values before the instruction (also
\* when r3 is r1 or r2), and change no other register, nor the heap,
\* equal_flag or remainder.
C10_ArithmeticResult ==
    [][(Decoded /\ last'.op \in {"ADD", "SUB", "MUL"} /\ ThreeRegistersAt(program_counter))
       => LET r1 == program[program_counter + 2]
              r2 == program[program_counter + 3]
              r3 == program[program_counter + 4]
              result == ExactResult(last'.op, registers[r1], registers[r2])
          IN  /\ ~crashed'
              /\ result # <<>>
              /\ registers' = [registers EXCEPT ![r3] = result[1]]
              /\ UNCHANGED <<heap, equal_flag, remainder>>]_vars

\* the record at the program counter is whole, carries the byte code `code`
\* and names registers in its first `operands` operand bytes
RecordAt(code, operands) ==
    /\ program_counter >= 0
    /\ program_counter + RecordWidth <= Len(program)
    /\ program[program_counter + 1] = code
    /\ \A k \in 1..operands : program[program_counter + k + 1] < NumRegisters

\* the register named by the k-th operand byte of the record at the counter
Operand(k) == program[program_counter + k + 1]

\* C11: DIV r1 r2 r3 with registers[r2] # 0 sets registers[r3] to the integer
\* quotient registers[r1] / registers[r2] (truncated towards zero) and the
\* remainder register to registers[r1] % registers[r2] (held as a u32), for
\* every pair of i32 values, negative dividends and divisors included.
C11_DivQuotientAndRemainder ==
    [][(Decoded /\ RecordAt(4, 3) /\ registers[Operand(2)] # 0)
       => LET a == registers[Operand(1)]
              b == registers[Operand(2)]
              q == registers'[Operand(3)]
              rem == a - b * q
          IN  /\ ~crashed'
              /\ registers' = [registers EXCEPT ![Operand(3)] = q]
              /\ b > 0 => (-b < rem /\ rem < b)
              /\ b < 0 => (b < rem /\ b < -rem)
              /\ rem = 0 \/ (rem < 0) = (a < 0)
              /\ remainder' = ToU32(rem)]_vars

\* C12: a DIV whose divisor register holds 0 is an error that halts the
\* execution and returns to the caller: the call does not abort the process,
\* and the destination register and the remainder are unchanged.
C12_DivByZeroReturns ==
    [][(Decoded /\ RecordAt(4, 3) /\ registers[Operand(2)] = 0)
       => (/\ ~crashed'
           /\ last'.out = "none"
           /\ UNCHANGED <<registers, remainder>>)]_vars

\* the operator of the comparison with byte code `code`, applied to (a, b)
CompareHolds(code, a, b) ==
    CASE code = 9 -> a = b
      [] code = 10 -> a # b
      [] code = 11 -> a > b
      [] code = 12 -> a < b
      [] code = 13 -> a >= b
      [] code = 14 -> a <= b

\* C13: each comparison opcode (EQ = 9, NEQ, GT, LT, GTE, LTE = 14) sets
\* equal_flag to the truth value of its operator on (registers[r1],
\* registers[r2]) as signed values, whatever the flag was before, changes no
\* register, and consumes the third byte of the record.
C13_ComparisonSetsFlag ==
    [][\A code \in 9..14 :
         (Decoded /\ RecordAt(code, 2))
         => (/\ ~crashed'
             /\ equal_flag' = CompareHolds(code, registers[Operand(1)], registers[Operand(2)])
             /\ program_counter' = program_counter + RecordWidth
             /\ UNCHANGED <<registers, heap, remainder>>)]_vars

\* LT on a negative and a positive register has set the flag
C13_Witness ==
    /\ last.op = "LT"
    /\ last.out = "some"
    /\ registers[1] = -7
    /\ registers[0] = 2
    /\ equal_flag
    /\ program_counter = RecordWidth

\* C14: JEQ r (15) sets the program counter to registers[r] exactly when
\* equal_flag is true, JNEQ r (16) exactly when it is false; otherwise the
\* instruction is a no-op and execution continues with the following
\* record; equal_flag and the registers are unchanged either way.
C14_ConditionalJump ==
    [][\A code \in {15, 16} :
         (Decoded /\ RecordAt(code, 1))
         => LET taken == (equal_flag = (code = 15))
            IN  /\ ~crashed'
                /\ taken => program_counter' = registers[Operand(1)]
                /\ taken => program_counter' >= 0
                /\ ~taken => program_counter' = program_counter + RecordWidth
                /\ UNCHANGED <<registers, equal_flag, heap, remainder>>]_vars

\* the counter the jump with byte code `code` is meant to leave, from the
\* opcode's offset p and the value v of its register
JumpTarget(code, p, v) ==
    CASE code = 6 -> v
      [] code = 7 -> (p + 2) + v
      [] code = 8 -> (p + 2) - v

\* C15: with p the offset of the opcode byte, JMP r (6) leaves the program
\* counter equal to registers[r], JMPF r (7) equal to (p + 2) + registers[r]
\* and JMPB r (8) equal to (p + 2) - registers[r], the counter being a byte
\* offset (not negative); no register or flag changes.
C15_JumpTargets ==
    [][\A code \in 6..8 :
         (Decoded /\ RecordAt(code, 1))
         => (/\ ~crashed'
             /\ program_counter' = JumpTarget(code, program_counter, registers[Operand(1)])
             /\ program_counter' >= 0
             /\ UNCHANGED <<registers, equal_flag, heap, remainder>>)]_vars

\* C16: ALOC r (17) with registers[r] >= 0 makes the heap its previous
\* content followed by registers[r] zero bytes; in every step the heap
\* never shrinks, and every heap byte is 0.
C16_AlocGrowsHeap ==
    [][/\ (Decoded /\ RecordAt(17, 1) /\ registers[Operand(1)] >= 0)
          => (~crashed' /\ heap' = heap \o Zeros(registers[Operand(1)]))
       /\ Len(heap') >= Len(heap)
       /\ \A i \in 1..Len(heap') : heap'[i] = 0]_vars

\* C17: INC r (18) increases registers[r] by exactly 1 and DEC r (19)
\* decreases it by exactly 1, and no other register, the heap, equal_flag
\* or remainder changes (so that an INC r step followed by a DEC r step
\* restores the register file).
C17_IncDecByOne ==
    [][/\ (Decoded /\ RecordAt(18, 1))
          => (/\ ~crashed'
              /\ registers[Operand(1)] # I32Max
              /\ registers' = [registers EXCEPT ![Operand(1)] = @ + 1]
              /\ UNCHANGED <<heap, equal_flag, remainder>>)
       /\ (Decoded /\ RecordAt(19, 1))
          => (/\ ~crashed'
              /\ registers[Operand(1)] # I32Min
              /\ registers' = [registers EXCEPT ![Operand(1)] = @ - 1]
              /\ UNCHANGED <<heap, equal_flag, remainder>>)]_vars

\* C18: add_program(bytes) appends: afterwards the program buffer is the
\* previous buffer followed by bytes, and registers, program counter, heap,
\* remainder and equal_flag are unchanged (so successive calls concatenate
\* in call order).
C18_AddProgramAppends ==
    [][last'.call = "add_program"
       => (/\ \E bytes \in Records : program' = program \o bytes
           /\ UNCHANGED <<registers, program_counter, heap, remainder, equal_flag>>)]_vars

\* a second, different record has been appended after the first one ran
C18_Witness ==
    /\ last.call = "add_program"
    /\ program = <<0, 0, 255, 255, 5, 0, 0, 0>>
    /\ program_counter = RecordWidth
    /\ registers[0] = 65535

\* C19: a new VM has 32 zero registers, an empty program, program counter
\* 0, an empty heap, remainder 0 and equal_flag false; a run_once() with the
\* program counter at or past the end of the buffer changes no part of the
\* VM state (and decodes nothing); any other run_once() decodes exactly one
\* opcode byte, the one at the program counter.
C19_RunOnceOneStep ==
    /\ [](last = NoCall
          => (/\ registers = [i \in 0..31 |-> 0]
              /\ program = <<>>
              /\ program_counter = 0
              /\ heap = <<>>
              /\ remainder = [hi |-> 0, lo |-> 0]
              /\ ~equal_flag))
    /\ [][last'.call = "run_once"
          => IF program_counter < 0 \/ program_counter >= Len(program)
             THEN /\ UNCHANGED <<registers, program, program_counter, heap,
                                 remainder, equal_flag>>
                  /\ ~crashed'
                  /\ last'.out = "none"
                  /\ steps' = steps
             ELSE /\ steps' = steps + 1
                  /\ last'.at = program_counter
                  /\ program' = program]_vars

\* run_once() has returned at the end of a program that has run
C19_Witness ==
    /\ last = [call |-> "run_once", op |-> "-", at |-> RecordWidth, out |-> "none"]
    /\ program = <<0, 0, 255, 255>>
    /\ program_counter = Len(program)
    /\ registers[0] = 65535
    /\ steps = 1

\* C20: Halted is stable under run_once(): once a run_once() has executed
\* HLT or an illegal opcode, a further run_once() with no add_program in
\* between returns normally and leaves registers, heap, equal_flag and
\* remainder unchanged.
C20_HaltedIsStable ==
    [][(/\ last.call = "run_once"
        /\ last.op \in {"HLT", "IGL"}
        /\ last'.call = "run_once")
       => (/\ ~crashed'
           /\ UNCHANGED <<registers, heap, equal_flag, remainder>>)]_vars

\* Program::parse, and the two forms of AssemblerInstruction::parse, on each
\* source text
SourceParsed == [raw \in AsmSources |-> ProgramParse(raw)]
SourceOpcodeForm == [raw \in AsmSources |-> InstructionParseOpcode(raw)]
SourceDirectiveForm == [raw \in AsmSources |-> InstructionParseDirective(raw)]

\* an alphabetic word that is not one of the mnemonics, in any case
UnknownWord(text) ==
    /\ text # ""
    /\ PrefixLen(text, Alpha) = Len(text)
    /\ \A i \in 1..Len(Mnemonics) : ToLowercase(text) # Mnemonics[i]

\* C21: an unrecognized mnemonic is carried end to end as the illegal
\* opcode: an alphabetic word outside the mnemonic table parses to the
\* illegal sentinel, and the byte the encoder emits for it is decoded by the
\* VM as the illegal opcode, never as an executable one.
C21_UnknownMnemonicStaysIllegal ==
    UnknownWord(asm_src) =>
        /\ TokenParseOpcode(asm_src).ok
        /\ TokenParseOpcode(asm_src).out.name = "IGL"
        /\ asm_out.some
        /\ OpcodeFromU8(asm_out.bytes[1]) = "IGL"

\* the operand slots of an instruction that hold a token
OperandsOf(instruction) ==
    { t \in {instruction.operand1, instruction.operand2, instruction.operand3} : t # None }

\* the bytes an operand token is to be encoded as: the index of a register,
\* the low 16 bits of an immediate with the high byte first
EncodingOf(token) ==
    IF token.tok = "Register" THEN <<token.num>>
    ELSE <<(token.num % 65536) \div 256, token.num % 256>>

\* the operand bytes of the records, one instruction after the other, each
\* record holding its opcode byte, its operands and the padding up to 4
RECURSIVE OperandImage(_)
OperandImage(instructions) ==
    IF instructions = <<>> THEN <<>>
    ELSE Pad(<<OpcodeAsU8(Head(instructions).opcode.name)>>
             \o (IF Head(instructions).operand1 = None THEN <<>>
                 ELSE EncodingOf(Head(instructions).operand1))
             \o (IF Head(instructions).operand2 = None THEN <<>>
                 ELSE EncodingOf(Head(instructions).operand2))
             \o (IF Head(instructions).operand3 = None THEN <<>>
                 ELSE EncodingOf(Head(instructions).operand3)))
         \o OperandImage(Tail(instructions))

\* C22: a register operand is encoded as the single byte equal to its index
\* (0..255); an immediate operand v (0 <= v < 2^31) is encoded as two bytes,
\* high byte first, holding v mod 65536; no immediate value makes the
\* encoding fail.
C22_OperandEncoding ==
    LET parsed == SourceParsed[asm_src] IN
    (/\ asm_calls > 0
     /\ parsed.ok
     /\ \A i \in 1..Len(parsed.instructions) : parsed.instructions[i].opcode.tok = "Opcode")
    => /\ \A i \in 1..Len(parsed.instructions) :
            \A t \in OperandsOf(parsed.instructions[i]) :
                /\ t.tok \in {"Register", "Operand"}
                /\ t.tok = "Register" => t.num \in 0..255
                /\ t.tok = "Operand" => t.num \in 0..I32Max
       /\ asm_out.some
       /\ asm_out.bytes = OperandImage(parsed.instructions)

\* an immediate above 65535 has been encoded by its low 16 bits
C22_Witness ==
    /\ asm_src = "load #70000"
    /\ asm_out.some
    /\ asm_out.bytes = <<0, 17, 112, 0>>

\* C23: encoding fails only when an opcode stands in an operand slot or the
\* leading token is neither an opcode nor a directive: a program in which
\* every instruction leads with an opcode or a directive, and whose operand
\* slots hold only registers and immediates, is assembled successfully
\* (directive instructions do not make the assembly fail).
C23_DirectivesDoNotFail ==
    LET parsed == SourceParsed[asm_src] IN
    (/\ asm_calls > 0
     /\ parsed.ok
     /\ \A i \in 1..Len(parsed.instructions) :
          /\ \/ parsed.instructions[i].opcode.tok = "Opcode"
             \/ parsed.instructions[i].directive.tok = "Directive"
          /\ \A t \in OperandsOf(parsed.instructions[i]) :
               t.tok \in {"Register", "Operand"})
    => asm_out.some

\* to_bytes fails for one of the instructions
SomeEncodingFails(instructions) ==
    \E i \in 1..Len(instructions) : ~InstructionToBytes(instructions[i]).ok

\* Program::parse on each command, and Program::to_bytes on what it gives
CommandParsed == [command \in ReplCommands |-> ProgramParse(command)]
CommandEncoded ==
    [command \in ReplCommands |-> ProgramToBytes(CommandParsed[command].instructions)]

Declaring(instructions) ==
    { i \in 0..(Len(instructions) - 1) :
        instructions[i + 1].label.tok = "LabelDeclaration" }

\* C25: the first pass of a fresh Assembler over a program of n
\* instructions records exactly one symbol (name, 4 * i) for every
\* instruction index i (from 0) whose leading token is a label declaration,
\* and nothing for instructions with no label or with a label usage only:
\* the offset advances by 4 for every instruction, labelled or not.
C25_FirstPassSymbols ==
    LET parsed == SourceParsed[asm_src] IN
    (asm_calls = 1 /\ parsed.ok)
    => /\ Len(symbols) = Cardinality(Declaring(parsed.instructions))
       /\ \A i \in Declaring(parsed.instructions) :
            /\ Cardinality({ k \in 1..Len(symbols) : symbols[k].offset = 4 * i }) = 1
            /\ \E k \in 1..Len(symbols) :
                 /\ symbols[k].offset = 4 * i
                 /\ symbols[k].name = parsed.instructions[i + 1].label.name
       /\ \A k \in 1..Len(symbols) :
            \E i \in Declaring(parsed.instructions) : symbols[k].offset = 4 * i

\* a label declared on the second line has been recorded at offset 4
C25_Witness ==
    /\ asm_calls = 1
    /\ asm_src = "hlt\ntest: inc $0"
    /\ Len(symbols) = 1
    /\ symbols[1].name = "test"
    /\ symbols[1].offset = 4

\* C26: symbol table keys are unique: after any sequence of assemble calls
\* on one Assembler (a source that declares the same label twice, and the
\* same source assembled twice, included) no two symbols of the table have
\* the same name.
C26_SymbolNamesUnique ==
    \A j \in 1..Len(symbols), k \in 1..Len(symbols) :
        symbols[j].name = symbols[k].name => j = k

\* the instruction holds an opcode and no directive, or a directive and no
\* opcode
OpcodeForm(instruction) ==
    instruction.opcode.tok = "Opcode" /\ instruction.directive = None
DirectiveForm(instruction) ==
    instruction.directive.tok = "Directive" /\ instruction.opcode = None

\* C27: every AssemblerInstruction the parser produces holds exactly one of
\* {opcode, directive}: the opcode form gives an opcode and no directive,
\* the directive form a directive and no opcode, and no parse result has
\* both or neither.
C27_OpcodeOrDirective ==
    asm_calls > 0 =>
        /\ SourceOpcodeForm[asm_src].ok => OpcodeForm(SourceOpcodeForm[asm_src].out)
        /\ SourceDirectiveForm[asm_src].ok => DirectiveForm(SourceDirectiveForm[asm_src].out)
        /\ \A i \in 1..Len(SourceParsed[asm_src].instructions) :
             OpcodeForm(SourceParsed[asm_src].instructions[i])
               # DirectiveForm(SourceParsed[asm_src].instructions[i])

\* a program of an opcode line and a directive line has been parsed
C27_Witness ==
    /\ asm_calls > 0
    /\ asm_src = "hlt\n.data"
    /\ Len(SourceParsed[asm_src].instructions) = 2
    /\ OpcodeForm(SourceParsed[asm_src].instructions[1])
    /\ DirectiveForm(SourceParsed[asm_src].instructions[2])

\* the opcode bytes of the records of a buffer made of whole records
OpcodeBytes(buf) == { buf[RecordWidth * (i - 1) + 1] : i \in 1..(Len(buf) \div RecordWidth) }

\* the byte codes of JMP, JMPF, JMPB, JEQ and JNEQ
JumpCodes == {6, 7, 8, 15, 16}

\* C28: the append + step protocol of the interactive session: from a new
\* VM, after any sequence of instruction commands (each one assembles one
\* instruction, appends its 4 bytes to the program buffer and calls
\* run_once()) in which no jump is taken, each run_once() has executed
\* exactly the instruction just appended, and after each command the
\* program counter equals the length of the program buffer.
C28_AppendAndStep ==
    (/\ ctl = "idle"
     /\ last.call = "run_once"
     /\ OpcodeBytes(program) \cap JumpCodes = {})
    => /\ ~crashed
       /\ last.at = Len(program) - RecordWidth
       /\ last.op = OpcodeFromU8(program[Len(program) - RecordWidth + 1])
       /\ program_counter = Len(program)

\* the buffer is a valid header followed by a whole number of records
HeaderAndRecords(buf) ==
    /\ Len(buf) >= HeaderLength
    /\ HasMagic(buf)
    /\ (Len(buf) - HeaderLength) % RecordWidth = 0

\* operand bytes an arm fetches whatever the registers hold: LOAD reads its
\* register byte and its 16-bit number before it writes; every other arm
\* with operands reads at least its first operand byte
SureFetches(op) ==
    CASE op = "LOAD" -> 3
      [] op \in {"HLT", "IGL"} -> 0
      [] OTHER -> 1

\* C29: the VM never reads the program buffer at an index at or beyond its
\* length: on a buffer made of a valid header followed by a whole number of
\* 4-byte records produced by the assembler, every opcode fetch and every
\* operand fetch made by run() or by repeated run_once() uses an index
\* below the buffer length.
C29_FetchesWithinBuffer ==
    [][(Decoded /\ HeaderAndRecords(program))
       => (/\ program_counter >= 0
           /\ program_counter < Len(program)
           /\ program_counter + SureFetches(OpcodeFromU8(program[program_counter + 1]))
                < Len(program))]_vars

\* the operand bytes of a record that its opcode uses as register indices
RegisterOperands(op) ==
    CASE op \in {"ADD", "SUB", "MUL", "DIV"} -> {1, 2, 3}
      [] op \in {"EQ", "NEQ", "GT", "LT", "GTE", "LTE"} -> {1, 2}
      [] op \in {"HLT", "IGL"} -> {}
      [] OTHER -> {1}

\* C30: the register file is never indexed outside 0..31: for every
\* instruction the parser accepts and the assembler encodes (register
\* operands $0 .. $255), executing the encoded record uses only register
\* indices below 32.
C30_RegisterIndexInRange ==
    [][(/\ Decoded
        /\ program_counter >= 0
        /\ program_counter % RecordWidth = 0
        /\ program_counter + RecordWidth <= Len(program))
       => \A k \in RegisterOperands(OpcodeFromU8(program[program_counter + 1])) :
             program[program_counter + k + 1] < NumRegisters]_vars

\* C31: the program counter always stays a valid non-negative byte offset:
\* no JMP, JMPF, JMPB, JEQ or JNEQ, for any register value (negative values
\* and a JMPB offset larger than the counter included), makes the counter
\* underflow, wrap around or abort the VM; a counter at or past the end of
\* the buffer only causes the halt-at-end transition.
C31_CounterStaysValid ==
    [][/\ \A code \in JumpCodes :
            (Decoded /\ RecordAt(code, 1)) => (~crashed' /\ program_counter' >= 0)
       /\ (last'.call = "run_once" /\ program_counter >= Len(program))
            => (~crashed' /\ last'.out = "none" /\ UNCHANGED vmvars)]_vars

\* the value is a signed 32-bit integer
IsI32(v) == I32Min <= v /\ v <= I32Max

\* C32: no arithmetic opcode can abort the VM or leave the signed 32-bit
\* range: for every register contents reachable by executing instructions
\* (two LOADs of 65535 followed by MUL, repeated MUL / ADD / INC / DEC), ADD,
\* SUB, MUL, INC and DEC complete the step, and every register holds a
\* value in [-2^31, 2^31 - 1].
C32_ArithmeticNeverAborts ==
    [][/\ \A code \in {1, 2, 3} : (Decoded /\ RecordAt(code, 3)) => ~crashed'
       /\ \A code \in {18, 19} : (Decoded /\ RecordAt(code, 1)) => ~crashed'
       /\ \A i \in 0..(NumRegisters - 1) : IsI32(registers'[i])]_vars

\* the index (from 0), in the bytes of the second pass, of the opcode byte
\* of instruction i (from 0): the length of what the instructions before it
\* encode to
OpcodeIndex(instructions, i) == Len(ProgramToBytes(SubSeq(instructions, 1, i)).bytes)

\* C33: the two assembler passes agree: for every program that assembles
\* successfully, the offset the first pass records for a declared label is
\* the index, in the bytes the second pass produces, of the opcode byte of
\* the instruction that carries the label.
C33_PassesAgree ==
    (asm_calls = 1 /\ asm_out.some)
    => LET instructions == SourceParsed[asm_src].instructions IN
       \A i \in Declaring(instructions) :
           \E k \in 1..Len(symbols) :
               /\ symbols[k].name = instructions[i + 1].label.name
               /\ symbols[k].offset = OpcodeIndex(instructions, i)

\* label fields to put in place of the ones a program has: none, a
\* declaration, a usage
OtherLabels ==
    { None, Token("LabelDeclaration", "other", 0), Token("LabelUsage", "other", 0) }

\* the program with the label field of every instruction replaced
Relabelled(instructions, label) ==
    [i \in 1..Len(instructions) |-> [instructions[i] EXCEPT !.label = label]]

\* C34: labels do not influence the emitted bytes: two programs that are
\* identical except for their label declarations and label usages assemble
\* to identical byte sequences, and an instruction that carries only a
\* label usage (`jeq @test`) encodes as its opcode byte followed by three
\* zero bytes whatever the symbol table contains.
C34_LabelsDoNotChangeBytes ==
    (asm_calls > 0 /\ SourceParsed[asm_src].ok)
    => /\ \A label \in OtherLabels :
            ResultOk(ProgramToBytes(Relabelled(SourceParsed[asm_src].instructions, label)))
              = asm_out
       /\ asm_src = "jeq @test"
            => (asm_out = Assembled["jeq"].out /\ asm_out.bytes = <<15, 0, 0, 0>>)

\* `jeq @test` assembled by an Assembler whose table holds the label test
C34_Witness ==
    /\ asm_src = "jeq @test"
    /\ Len(symbols) = 1
    /\ symbols[1].name = "test"
    /\ asm_out.some
    /\ asm_out.bytes = <<15, 0, 0, 0>>

\* no byte of the buffer after the header is the code of a jump
NoJumpBytes(buf) ==
    \A i \in (HeaderLength + 1)..Len(buf) : buf[i] \notin JumpCodes

\* C35: run() terminates on every program that has a valid header and
\* contains no jump opcode: each step its loop executes strictly increases
\* the program counter and none aborts, so the VM reaches Halted (HLT, an
\* illegal opcode, or the counter at the end of the buffer).
C35_RunReachesHalted ==
    [][(/\ last'.call \in RunCalls
        /\ HeaderAndRecords(program)
        /\ NoJumpBytes(program))
       => (/\ ~crashed'
           /\ Decoded => program_counter' > program_counter)]_vars

\* C36: on a buffer with a valid header run() starts execution at byte
\* offset 64 whatever the program counter was before the call, and (no jump
\* being executed) never decodes the header bytes 4..63 as instructions; a
\* buffer with a valid magic prefix but fewer than 64 bytes executes zero
\* instructions.
C36_RunStartsAfterHeader ==
    [][/\ (last'.call = "run" /\ HasMagic(program))
            => (/\ ~crashed'
                /\ last'.out = "started"
                /\ program_counter' = 64)
       /\ (last.call = "run" /\ last'.call = "run_cond" /\ Decoded)
            => last'.at = 64
       /\ (last'.call \in RunCalls /\ Decoded /\ NoJumpBytes(program))
            => last'.at >= 64
       /\ (last'.call \in RunCalls /\ HasMagic(program) /\ Len(program) < 64)
            => (/\ ~Decoded
                /\ ~crashed'
                /\ UNCHANGED <<registers, heap, remainder, equal_flag>>)]_vars

\* run() has started on a VM whose counter earlier calls had left inside
\* the header
C36_Witness ==
    /\ last.call = "run"
    /\ last.out = "started"
    /\ last.at > 0
    /\ last.at < 64
    /\ Len(program) > 64
    /\ program_counter = 64

\* the opcode bytes of the table of From<u8>
TableCodes == 0..19

\* C37: HLT and an illegal opcode byte consume exactly the opcode byte and
\* touch nothing else: after run_once() at an opcode byte 5 or a byte that
\* is not in the table (e.g. 255) the program counter is one past that byte,
\* registers, heap, equal_flag, remainder and the program buffer are
\* unchanged, and the call returns normally.
C37_HaltConsumesOneByte ==
    [][(/\ last'.call = "run_once"
        /\ program_counter >= 0
        /\ program_counter < Len(program)
        /\ program[program_counter + 1] \in {5} \cup ((0..255) \ TableCodes))
       => (/\ program_counter' = program_counter + 1
           /\ UNCHANGED <<registers, heap, equal_flag, remainder, program>>
           /\ ~crashed'
           /\ last'.out = "none"
           /\ Decoded)]_vars

\* run_once() has stepped over the byte 255 of the second record with a
\* register loaded and the flag set
C37_Witness ==
    /\ last.call = "run_once"
    /\ last.out = "none"
    /\ last.at >= RecordWidth
    /\ last.at < Len(program)
    /\ program[last.at + 1] = 255
    /\ program_counter = last.at + 1
    /\ \E i \in 0..(NumRegisters - 1) : registers[i] # 0

\* C38: clearing the session restarts execution: when the buffer holds
\* nothing but the instruction just entered at the REPL (the first of the
\* session, or the first after `!clear` emptied the buffer), the
\* run_once() that follows its append executes that instruction: it starts
\* at offset 0 and decodes, the counter not being past the appended bytes.
C38_ClearRestartsExecution ==
    [][(/\ last.call = "repl"
        /\ last.out = "appended"
        /\ program # <<>>
        /\ program = asm_out.bytes
        /\ last'.call = "run_once")
       => (/\ last'.at = 0
           /\ Decoded)]_vars

\* the names looked up: those of the table and two fixed ones
LookupNames(table) == { table[k].name : k \in 1..Len(table) } \cup { "test", "other" }

\* the symbols handed to add_symbol
SymbolInputs ==
    { [name |-> n, symbol_type |-> "Label", offset |-> o] :
        n \in { "test", "other" }, o \in { 0, 12 } }

\* the positions of the symbols of `table` named `n`
Named(table, n) == { k \in 1..Len(table) : table[k].name = n }

\* C39: symbol_offset(name) returns the offset of the earliest added symbol
\* with that name and None when no symbol has that name; add_symbol
\* increases the number of stored symbols by exactly one and never changes
\* the result of symbol_offset for a name that was already present.
C39_EarliestSymbolWins ==
    /\ \A n \in LookupNames(symbols) :
         IF Named(symbols, n) = {}
         THEN ~SymbolOffset(symbols, n).some
         ELSE /\ SymbolOffset(symbols, n).some
              /\ \E k \in Named(symbols, n) :
                   /\ \A j \in Named(symbols, n) : k <= j
                   /\ SymbolOffset(symbols, n).offset = symbols[k].offset
    /\ \A s \in SymbolInputs :
         /\ Len(AddSymbol(symbols, s)) = Len(symbols) + 1
         /\ \A n \in LookupNames(symbols) :
              Named(symbols, n) # {}
              => SymbolOffset(AddSymbol(symbols, s), n) = SymbolOffset(symbols, n)
         /\ Named(symbols, s.name) = {}
              => SymbolOffset(AddSymbol(symbols, s), s.name)
                   = [some |-> TRUE, offset |-> s.offset]

\* two assemble calls have added two symbols named test with different
\* offsets, and the lookup gives the offset of the first
C39_Witness ==
    /\ Len(symbols) = 2
    /\ symbols[1].name = "test"
    /\ symbols[2].name = "test"
    /\ symbols[1].offset = 4
    /\ symbols[2].offset = 0
    /\ SymbolOffset(symbols, "test") = [some |-> TRUE, offset |-> 4]

====
